---- MODULE Spec2Model ----
(***************************************************************************)
(* Model of the k6 load-test harness of local-grafana-stack:               *)
(*   - run-k6.sh, the runner (name resolution, environment preparation,    *)
(*     launch of the scenario, exit status);                               *)
(*   - the scenario scripts (stage lists, thresholds, iteration bodies);   *)
(*   - the load engine the scripts run on (schedule, VU lifecycle, metric  *)
(*     registers, threshold evaluation), which is not part of the          *)
(*     repository's sources and is modelled from the specification.        *)
(* The specifications (runner, schedule, VUs with and without fairness,     *)
(* threshold evaluation) share the module's variables; each one leaves the *)
(* variables of the other parts at their idle values.                      *)
(***************************************************************************)
EXTENDS Integers, Sequences, FiniteSets, TLC

VARIABLES
  \* ---- run-k6.sh
  pc,            \* position of the runner in the script
  args,          \* "$@": the command line
  scripts,       \* names n such that $K6_SCRIPTS_DIR/n.js is a file
  TEST_NAME,     \* run-k6.sh:72
  output,        \* what the runner has printed, as <<kind, name>> lines
  exitStatus,    \* -1 while running, else the process exit status
  dockerChecked, \* docker info has been run
  dockerUp,      \* the Docker daemon answers
  appUp,         \* rust-app is "Up"
  startAttempts, \* number of docker-compose up -d rust-app runs
  upStatus,      \* exit status of docker-compose up -d rust-app (-1: not run)
  launched,      \* docker-compose run ... k6 run has been started
  k6Args,        \* the arguments handed to k6 run
  k6Status,      \* exit status of the scenario run (-1: not run)
  EXIT_CODE,     \* run-k6.sh:105 (-1: not assigned)
  \* ---- schedule
  scenario,      \* the scenario script being run
  startVUs,      \* VU target the first stage ramps from
  elapsed,       \* seconds since the start of the run
  target,        \* computed VU target at `elapsed`
  \* ---- virtual users and metric registers
  vus,           \* per VU: position in its iteration loop
  stopped,       \* the global stop signal has been given
  runState,      \* "running" or "done"
  iterations,    \* iterations started so far
  errorRate,     \* Rate('errors')
  errors,        \* Counter('intentional_errors')
  requestCount,  \* Counter('requests')
  requestDuration, \* Trend('request_duration'): sample -> number of occurrences
  checksReg,     \* the checks' tally
  completed,     \* completed iterations, by outcome
  aborted,       \* iterations ended by an exception
  \* ---- threshold evaluation
  httpDuration,  \* Trend http_req_duration: the samples in ascending order
  httpFailed,    \* Rate http_req_failed
  verdict        \* "none" before the evaluation, then "PASS" or "FAIL"

runnerVars == <<pc, args, scripts, TEST_NAME, output, exitStatus, dockerChecked,
                dockerUp, appUp, startAttempts, upStatus, launched, k6Args,
                k6Status, EXIT_CODE>>
schedVars == <<scenario, startVUs, elapsed, target>>
vuVars == <<vus, stopped, runState, iterations, errorRate, errors, requestCount,
            requestDuration, checksReg, completed, aborted>>
thrVars == <<httpDuration, httpFailed, verdict>>
vars == <<runnerVars, schedVars, vuVars, thrVars>>

(***************************************************************************)
(* run-k6.sh                                                               *)
(***************************************************************************)

\* run-k6.sh:13-20. Each entry "name:description" is kept as <<name, description>>.
TESTS ==
  << <<"basic-load", "Standard load test (4min, 20 users)">>,
     <<"stress-test", "High load stress test (10min, 150 users)">>,
     <<"spike-test", "Sudden traffic spikes (4min, 300 peak)">>,
     <<"soak-test", "Long-running stability test (13min, 20 users)">>,
     <<"error-test", "Error handling test (3min, 10 users)">>,
     <<"profiling-test", "CPU profiling test (3min, 5 users)">> >>

\* ${test%%:*}
TestName(test) == test[1]

\* ${test#*:}
TestDesc(test) == test[2]

TestNames == {TestName(TESTS[i]) : i \in 1..Len(TESTS)}

\* [ -f "$K6_SCRIPTS_DIR/${name}.js" ] with the catalog standing in for the directory.
ScriptExistsInCatalog(files, name) == name \in TestNames

\* [ -f "$K6_SCRIPTS_DIR/${name}.js" ]
ScriptExists(files, name) == name \in files

\* show_usage: the banner and one line per catalog entry.
show_usage ==
  << <<"usage", "">> >> \o [i \in 1..Len(TESTS) |-> <<"usage-test", TestName(TESTS[i])>>]

\* list_tests: a header and, per catalog entry, a found or a "Script not found" line.
list_tests(files) ==
  << <<"list-header", "">> >> \o
  [i \in 1..Len(TESTS) |->
     <<IF ScriptExists(files, TestName(TESTS[i])) THEN "list-found" ELSE "list-missing",
       TestName(TESTS[i])>>]

\* set -e with the option left out: no command's failure ends the script.
ErrExitOff == FALSE

\* set -e (run-k6.sh:3): a failing simple command ends the script with its status.
ErrExit == TRUE

\* Names the runner is asked for, and scripts that may lie in the directory.
RequestedNames == TestNames \cup {"custom", "nope"}
ScriptUniverse == {"basic-load", "spike-test", "soak-test", "custom"}
ExtraArgs == { <<>>, <<"--vus", "50">> }
ArgChoices ==
  { <<>>, <<"--help">>, <<"--list">>, <<"--help", "basic-load">> } \cup
  { <<n>> \o x : n \in RequestedNames, x \in ExtraArgs }

\* Exit statuses of the commands the runner starts.
UpStatuses == {0, 1}
K6Statuses == {0, 99, 107}

RunnerInit ==
  /\ pc = "args"
  /\ args \in ArgChoices
  /\ scripts \in SUBSET ScriptUniverse
  /\ TEST_NAME = ""
  /\ output = << >>
  /\ exitStatus = -1
  /\ dockerChecked = FALSE
  /\ dockerUp \in BOOLEAN
  /\ appUp \in BOOLEAN
  /\ startAttempts = 0
  /\ upStatus = -1
  /\ launched = FALSE
  /\ k6Args = << >>
  /\ k6Status = -1
  /\ EXIT_CODE = -1

RunnerIdle ==
  /\ pc = "idle"
  /\ args = << >>
  /\ scripts = {}
  /\ TEST_NAME = ""
  /\ output = << >>
  /\ exitStatus = -1
  /\ dockerChecked = FALSE
  /\ dockerUp = FALSE
  /\ appUp = FALSE
  /\ startAttempts = 0
  /\ upStatus = -1
  /\ launched = FALSE
  /\ k6Args = << >>
  /\ k6Status = -1
  /\ EXIT_CODE = -1

\* [ $# -eq 0 ] || [ "$1" = "--help" ]
WantsUsage(a) == IF Len(a) = 0 THEN TRUE ELSE a[1] = "--help"

\* exit N
Exit(status, printed) ==
  /\ pc' = "exit"
  /\ exitStatus' = status
  /\ output' = output \o printed

\* run-k6.sh:62-65
Usage ==
  /\ pc = "args"
  /\ WantsUsage(args)
  /\ Exit(0, show_usage)
  /\ UNCHANGED <<args, scripts, TEST_NAME, dockerChecked, dockerUp, appUp,
                 startAttempts, upStatus, launched, k6Args, k6Status, EXIT_CODE>>
  /\ UNCHANGED <<schedVars, vuVars, thrVars>>

\* run-k6.sh:67-70
List ==
  /\ pc = "args"
  /\ ~WantsUsage(args)
  /\ args[1] = "--list"
  /\ Exit(0, list_tests(scripts))
  /\ UNCHANGED <<args, scripts, TEST_NAME, dockerChecked, dockerUp, appUp,
                 startAttempts, upStatus, launched, k6Args, k6Status, EXIT_CODE>>
  /\ UNCHANGED <<schedVars, vuVars, thrVars>>

\* run-k6.sh:72-73: TEST_NAME="$1"; shift
TakeName ==
  /\ pc = "args"
  /\ ~WantsUsage(args)
  /\ args[1] # "--list"
  /\ TEST_NAME' = args[1]
  /\ args' = Tail(args)
  /\ pc' = "resolve"
  /\ UNCHANGED <<scripts, output, exitStatus, dockerChecked, dockerUp, appUp,
                 startAttempts, upStatus, launched, k6Args, k6Status, EXIT_CODE>>
  /\ UNCHANGED <<schedVars, vuVars, thrVars>>

\* run-k6.sh:75-81, script missing
NotFound ==
  /\ pc = "resolve"
  /\ ~ScriptExists(scripts, TEST_NAME)
  /\ Exit(1, << <<"error-not-found", TEST_NAME>> >> \o list_tests(scripts))
  /\ UNCHANGED <<args, scripts, TEST_NAME, dockerChecked, dockerUp, appUp,
                 startAttempts, upStatus, launched, k6Args, k6Status, EXIT_CODE>>
  /\ UNCHANGED <<schedVars, vuVars, thrVars>>

\* run-k6.sh:75-81, script present
Found ==
  /\ pc = "resolve"
  /\ ScriptExists(scripts, TEST_NAME)
  /\ pc' = "docker"
  /\ UNCHANGED <<args, scripts, TEST_NAME, output, exitStatus, dockerChecked, dockerUp,
                 appUp, startAttempts, upStatus, launched, k6Args, k6Status, EXIT_CODE>>
  /\ UNCHANGED <<schedVars, vuVars, thrVars>>

\* run-k6.sh:83-86
CheckDocker ==
  /\ pc = "docker"
  /\ dockerChecked' = TRUE
  /\ IF dockerUp
       THEN pc' = "app" /\ UNCHANGED <<output, exitStatus>>
       ELSE Exit(1, << <<"error-docker", "">> >>)
  /\ UNCHANGED <<args, scripts, TEST_NAME, dockerUp, appUp, startAttempts, upStatus,
                 launched, k6Args, k6Status, EXIT_CODE>>
  /\ UNCHANGED <<schedVars, vuVars, thrVars>>

\* run-k6.sh:88, rust-app is Up: the block is skipped
AppRunning ==
  /\ pc = "app"
  /\ appUp
  /\ pc' = "launch"
  /\ UNCHANGED <<args, scripts, TEST_NAME, output, exitStatus, dockerChecked, dockerUp,
                 appUp, startAttempts, upStatus, launched, k6Args, k6Status, EXIT_CODE>>
  /\ UNCHANGED <<schedVars, vuVars, thrVars>>

\* run-k6.sh:88-94, rust-app is not Up: docker-compose up -d rust-app, then sleep 5.
\* The command's status s and whether the service is available afterwards are the
\* environment's; nothing is read back after the sleep.
StartApp ==
  /\ pc = "app"
  /\ ~appUp
  /\ \E s \in UpStatuses, ready \in BOOLEAN :
       /\ s # 0 => ~ready
       /\ startAttempts' = startAttempts + 1
       /\ upStatus' = s
       /\ appUp' = ready
       /\ IF s # 0 /\ ErrExit
            THEN Exit(s, << <<"warn-app", "">>, <<"starting", "">> >>)
            ELSE /\ pc' = "launch"
                 /\ output' = output \o
                      << <<"warn-app", "">>, <<"starting", "">>, <<"waiting", "">> >>
                 /\ UNCHANGED exitStatus
  /\ UNCHANGED <<args, scripts, TEST_NAME, dockerChecked, dockerUp, launched, k6Args,
                 k6Status, EXIT_CODE>>
  /\ UNCHANGED <<schedVars, vuVars, thrVars>>

\* run-k6.sh:96-105: docker-compose run --rm k6 run "/scripts/${TEST_NAME}.js" "$@"
Launch ==
  /\ pc = "launch"
  /\ \E s \in K6Statuses :
       /\ launched' = TRUE
       /\ k6Args' = <<TEST_NAME>> \o args
       /\ k6Status' = s
       /\ IF s # 0 /\ ErrExit
            THEN /\ Exit(s, << <<"running", TEST_NAME>> >>)
                 /\ UNCHANGED EXIT_CODE
            ELSE /\ pc' = "report"
                 /\ EXIT_CODE' = s
                 /\ output' = output \o << <<"running", TEST_NAME>> >>
                 /\ UNCHANGED exitStatus
  /\ UNCHANGED <<args, scripts, TEST_NAME, dockerChecked, dockerUp, appUp,
                 startAttempts, upStatus>>
  /\ UNCHANGED <<schedVars, vuVars, thrVars>>

\* run-k6.sh:107-115
Report ==
  /\ pc = "report"
  /\ Exit(EXIT_CODE,
          << <<IF EXIT_CODE = 0 THEN "success" ELSE "failed", TEST_NAME>> >>)
  /\ UNCHANGED <<args, scripts, TEST_NAME, dockerChecked, dockerUp, appUp,
                 startAttempts, upStatus, launched, k6Args, k6Status, EXIT_CODE>>
  /\ UNCHANGED <<schedVars, vuVars, thrVars>>

RunnerNext ==
  \/ Usage
  \/ List
  \/ TakeName
  \/ NotFound
  \/ Found
  \/ CheckDocker
  \/ AppRunning
  \/ StartApp
  \/ Launch
  \/ Report

(***************************************************************************)
(* Claims about the runner                                                 *)
(***************************************************************************)

\* One line of list_tests per catalog entry is in the output.
ListsKnownNames(out) ==
  \A n \in TestNames :
    \E k \in 1..Len(out) : out[k][2] = n /\ out[k][1] \in {"list-found", "list-missing"}

\* C1: a requested test with no <name>.js in the scripts directory ends the runner
\* with status 1, after an error line naming the test and the list of the known
\* tests, and before Docker is checked, the target service started or a scenario
\* launched.
C1_UnknownTestNotFound ==
  (pc # "args" /\ TEST_NAME \in RequestedNames /\ ~(TEST_NAME \in scripts)) =>
    /\ ~dockerChecked
    /\ startAttempts = 0
    /\ ~launched
    /\ pc \in {"resolve", "exit"}
    /\ pc = "exit" =>
         /\ exitStatus = 1
         /\ \E k \in 1..Len(output) : output[k] = <<"error-not-found", TEST_NAME>>
         /\ ListsKnownNames(output)

\* C1 witness: a catalog name whose script is missing has been refused while other
\* scripts are present.
C1_Witness ==
  /\ pc = "exit"
  /\ TEST_NAME = "error-test"
  /\ "spike-test" \in scripts
  /\ exitStatus = 1
  /\ output[1] = <<"error-not-found", "error-test">>

\* C2: the exit status is the scenario run's status on every path that launches
\* it (0 when it passes, its non-zero status when it fails), and non-zero when
\* Docker is not running or starting the target service fails.
C2_ExitStatus ==
  pc = "exit" =>
    /\ launched => exitStatus = k6Status
    /\ (dockerChecked /\ ~dockerUp) => (exitStatus # 0 /\ ~launched)
    /\ (upStatus # -1 /\ upStatus # 0) => (exitStatus # 0 /\ ~launched)

\* C2 witness: a failed scenario run (thresholds crossed) has been reported.
C2_Witness ==
  /\ pc = "exit"
  /\ launched
  /\ k6Status = 99
  /\ exitStatus = 99

\* C3: a target service that is not running gets one start attempt, and when it
\* is still unavailable after the attempt no scenario is run and the runner ends
\* non-zero.
C3_AbortWhenStillUnavailable ==
  /\ startAttempts <= 1
  /\ (startAttempts = 1 /\ ~appUp) => ~launched
  /\ (pc = "exit" /\ startAttempts = 1 /\ ~appUp) => exitStatus # 0

(***************************************************************************)
(* Scenario scripts: stage lists                                           *)
(***************************************************************************)

\* { duration: '<n><unit>', target: <target> }
Stage(n, unit, tgt) == [n |-> n, unit |-> unit, target |-> tgt]

\* src/k6/profiling-test.js:6-10
ProfilingStages ==
  << Stage(30, "s", 5), Stage(2, "m", 5), Stage(30, "s", 0) >>

\* basic-load, src/k6/profiling-test.js:45-51
BasicLoadStages ==
  << Stage(30, "s", 10), Stage(1, "m", 10), Stage(30, "s", 20), Stage(1, "m", 20),
     Stage(30, "s", 0) >>

\* stress-test, src/k6/profiling-test.js:120-127
StressStages ==
  << Stage(1, "m", 50), Stage(2, "m", 100), Stage(3, "m", 100), Stage(1, "m", 150),
     Stage(2, "m", 150), Stage(1, "m", 0) >>

\* spike-test with its last stage (the ramp-down) left out.
SpikeStagesNoRampDown ==
  << Stage(30, "s", 10), Stage(10, "s", 200), Stage(1, "m", 200), Stage(10, "s", 10),
     Stage(30, "s", 10), Stage(10, "s", 300), Stage(30, "s", 300) >>

\* src/k6/spike-test.js:5-14
SpikeStages ==
  << Stage(30, "s", 10), Stage(10, "s", 200), Stage(1, "m", 200), Stage(10, "s", 10),
     Stage(30, "s", 10), Stage(10, "s", 300), Stage(30, "s", 300), Stage(10, "s", 0) >>

\* soak-test with its last stage (the ramp-down) left out.
SoakStagesNoRampDown ==
  << Stage(2, "m", 20), Stage(10, "m", 20) >>

\* src/k6/soak-test.js:6-10
SoakStages ==
  << Stage(2, "m", 20), Stage(10, "m", 20), Stage(1, "m", 0) >>

\* error-test, src/unnamed/part_001:35-39
ErrorStages ==
  << Stage(30, "s", 10), Stage(2, "m", 10), Stage(30, "s", 0) >>

ScenarioNames == TestNames

\* options.stages of the scenario script <name>.js
Stages(name) ==
  CASE name = "profiling-test" -> ProfilingStages
    [] name = "basic-load" -> BasicLoadStages
    [] name = "stress-test" -> StressStages
    [] name = "spike-test" -> SpikeStages
    [] name = "soak-test" -> SoakStages
    [] name = "error-test" -> ErrorStages

(***************************************************************************)
(* Schedule Engine (specification section 4.1)                             *)
(***************************************************************************)

\* A duration string '<n>s' or '<n>m' in seconds.
DurationSeconds(st) ==
  CASE st.unit = "s" -> st.n
    [] st.unit = "m" -> 60 * st.n

RECURSIVE StageEnd(_, _)
\* t_{i+1}: the elapsed time at which stage i ends (0 for i = 0).
StageEnd(stages, i) ==
  IF i = 0 THEN 0 ELSE StageEnd(stages, i - 1) + DurationSeconds(stages[i])

\* T: the durations' sum.
TotalDuration(stages) == StageEnd(stages, Len(stages))

\* A stage ramping from the run's start target whatever precedes it.
StageStartFromRunStart(stages, start, i) == start

\* target_{i-1}: the target stage i ramps from.
StageStartTarget(stages, start, i) ==
  IF i = 1 THEN start ELSE stages[i - 1].target

\* num/den rounded to the nearest integer (halves up), for num >= 0 and den > 0.
RoundDiv(num, den) == (2 * num + den) \div (2 * den)

\* The formula of section 4.1 for stage i at elapsed time t, t_i <= t <= t_{i+1}:
\* target_{i-1} + (target_i - target_{i-1}) * (t - t_i) / (t_{i+1} - t_i),
\* rounded to the nearest integer and clamped to >= 0.
StageTargetAt(stages, start, i, t) ==
  LET a == StageStartTarget(stages, start, i)
      b == stages[i].target
      d == DurationSeconds(stages[i])
      v == RoundDiv(a * d + (b - a) * (t - StageEnd(stages, i - 1)), d)
  IN IF v < 0 THEN 0 ELSE v

\* The stage whose window [t_i, t_{i+1}) holds t (the last one for t >= T).
StageIndexAt(stages, t) ==
  IF t >= TotalDuration(stages)
    THEN Len(stages)
    ELSE CHOOSE i \in 1..Len(stages) :
           StageEnd(stages, i - 1) <= t /\ t < StageEnd(stages, i)

\* The computed VU target at elapsed time t.
TargetAt(stages, start, t) ==
  IF t >= TotalDuration(stages)
    THEN stages[Len(stages)].target
    ELSE StageTargetAt(stages, start, StageIndexAt(stages, t), t)

\* The start targets a run may be given.
StartChoices == {0, 1}

SchedInit ==
  /\ scenario \in ScenarioNames
  /\ startVUs \in StartChoices
  /\ elapsed = 0
  /\ target = TargetAt(Stages(scenario), startVUs, 0)

\* One second of the run's clock.
Tick ==
  /\ elapsed < TotalDuration(Stages(scenario))
  /\ elapsed' = elapsed + 1
  /\ target' = TargetAt(Stages(scenario), startVUs, elapsed')
  /\ UNCHANGED <<scenario, startVUs>>
  /\ UNCHANGED <<runnerVars, vuVars, thrVars>>

SchedNext == Tick

(***************************************************************************)
(* Claims about the schedule                                               *)
(***************************************************************************)

\* C5: at elapsed time 0 the computed target is the first stage's starting
\* target, and at elapsed time T (the durations' sum) it is the last stage's
\* target, which is 0 for every scenario of the catalog.
C5_EndpointTargets ==
  LET st == Stages(scenario) IN
    scenario \in ScenarioNames =>
      /\ elapsed = 0 => target = StageStartTarget(st, startVUs, 1)
      /\ elapsed = TotalDuration(st) =>
           (target = st[Len(st)].target /\ target = 0)

\* C5 witness: the spike test's clock has run its 190 seconds and the target is 0.
C5_Witness ==
  /\ scenario = "spike-test"
  /\ elapsed = 190
  /\ elapsed = TotalDuration(SpikeStages)
  /\ target = 0

\* C6: within one stage the target only moves in the stage's direction (up in a
\* ramp-up, down in a ramp-down, not at all in a hold), and at a stage boundary
\* the value the ending stage reaches is the value the next stage starts from.
C6_MonotoneAndContinuous ==
  [][LET st == Stages(scenario)
         i == StageIndexAt(st, elapsed)
         a == StageStartTarget(st, startVUs, i)
         b == st[i].target
     IN /\ b >= a => target' >= target
        /\ b <= a => target' <= target
        /\ elapsed' = StageEnd(st, i) =>
             target' = StageTargetAt(st, startVUs, i, elapsed')
        /\ target = StageTargetAt(st, startVUs, i, elapsed)]_vars

\* C6 witness: the spike test is half way down its first ramp-down (200 to 10
\* between 100 s and 110 s).
C6_Witness ==
  /\ scenario = "spike-test"
  /\ elapsed = 105
  /\ target = 105

(***************************************************************************)
(* Scenario scripts: iteration bodies                                      *)
(***************************************************************************)

\* basic-load, src/k6/profiling-test.js:62-83
BasicLoadRequests ==
  << [method |-> "GET", url |-> "/health"],
     [method |-> "GET", url |-> "/user/<n>"],
     [method |-> "POST", url |-> "/calculate/add"],
     [method |-> "POST", url |-> "/calculate/divide"] >>

\* error-test, src/unnamed/part_001:46-66
ErrorTestRequests ==
  << [method |-> "GET", url |-> "/health", shouldError |-> FALSE],
     [method |-> "POST", url |-> "/calculate/add", shouldError |-> FALSE],
     [method |-> "POST", url |-> "/calculate/divide", shouldError |-> TRUE],
     [method |-> "GET", url |-> "/simulate/error", shouldError |-> TRUE] >>

\* profiling-test, src/k6/profiling-test.js:16-29
ProfilingOperations ==
  << [method |-> "GET", url |-> "/health"],
     [method |-> "GET", url |-> "/user/<n>"],
     [method |-> "GET", url |-> "/simulate/slow"],
     [method |-> "POST", url |-> "/calculate/add"] >>

\* stress-test, src/k6/profiling-test.js:133-136
StressEndpoints == << "/health", "/user/<n>" >>

\* soak-test, src/k6/soak-test.js:16-19
SoakBatch == << <<"GET", "/health">>, <<"GET", "/user/<n>">> >>

\* The values of Math.floor(Math.random() * list.length) + 1, per scenario
\* (one choice where the script picks nothing at random).
RequestChoices(name) ==
  CASE name = "basic-load" -> 1..Len(BasicLoadRequests)
    [] name = "error-test" -> 1..Len(ErrorTestRequests)
    [] name = "profiling-test" -> 1..Len(ProfilingOperations)
    [] name = "stress-test" -> 1..Len(StressEndpoints)
    [] name = "spike-test" -> {1}
    [] name = "soak-test" -> {1}

\* req.shouldError of the request picked (error-test only).
ShouldError(name, idx) ==
  IF name = "error-test" THEN ErrorTestRequests[idx].shouldError ELSE FALSE

\* Number of HTTP calls an iteration issues and waits for: 2 in soak-test's
\* http.batch, else 1.
BatchSize(name) == IF name = "soak-test" THEN Len(SoakBatch) ELSE 1

\* The checks an iteration applies to a response, in the order of the object's keys.
ChecksOf(name, shouldError) ==
  CASE name = "basic-load" -> << "status is 200 or 400", "response has body" >>
    [] name = "stress-test" -> << "status is 200" >>
    [] name = "spike-test" -> << "status is 200" >>
    [] name = "soak-test" -> << "status is 200" >>
    [] name = "error-test" ->
         IF shouldError THEN << "expected error status" >> ELSE << "success status" >>
    [] name = "profiling-test" -> << >>

\* The check predicates. r.body is null for a request that failed at the network
\* level or whose body was discarded; r.body.length then throws a TypeError.
CheckThrows(check, r) == check = "response has body" /\ r.bodyNull

CheckPasses(check, r) ==
  CASE check = "status is 200 or 400" -> r.status = 200 \/ r.status = 400
    [] check = "response has body" -> r.bodyLen > 0
    [] check = "status is 200" -> r.status = 200
    [] check = "expected error status" -> r.status >= 400
    [] check = "success status" -> r.status = 200

\* check(response, {...}): the predicates run in order, each result is tallied,
\* `success` is true when all passed; a predicate that throws ends the call with
\* the exception.
Check(r, checks) ==
  LET throwing == {i \in 1..Len(checks) : CheckThrows(checks[i], r)}
      first == IF throwing = {} THEN Len(checks) + 1
               ELSE CHOOSE i \in throwing : \A j \in throwing : i <= j
      ran == 1..(first - 1)
      nfail == Cardinality({i \in ran : ~CheckPasses(checks[i], r)})
  IN [threw |-> throwing # {},
      passes |-> Cardinality(ran) - nfail,
      fails |-> nfail,
      success |-> nfail = 0]

\* The sample handed to errorRate.add with the condition inverted.
ErrorSampleInverted(name, success) == success

\* The sample handed to errorRate.add, as a truth value:
\* basic-load (profiling-test.js:104-108) adds 1 when !success and 0 otherwise,
\* stress-test (profiling-test.js:144) adds !success.
ErrorSample(name, success) ==
  CASE name = "basic-load" -> (IF ~success THEN 1 ELSE 0) # 0
    [] name = "stress-test" -> ~success

\* errors.add(1) done only when the response was not the expected error.
CountsIntentionalUnexpected(shouldError, checkOk) == ~checkOk

\* Whether error-test's iteration runs errors.add(1) (part_001:79-88): in the
\* shouldError branch, after the check and whatever its result.
CountsIntentional(shouldError, checkOk) == shouldError

\* Whether the iteration updates a custom register after its check() call.
HasRecordStep(name, shouldError, checkOk) ==
  CASE name \in {"basic-load", "stress-test"} -> TRUE
    [] name = "error-test" -> CountsIntentional(shouldError, checkOk)
    [] OTHER -> FALSE

(***************************************************************************)
(* Metric Registers (specification section 3)                              *)
(***************************************************************************)

\* Rate.add(b): one more observation, true or not.
RateAdd(reg, b) ==
  [total |-> reg.total + 1, trues |-> reg.trues + (IF b THEN 1 ELSE 0)]

\* Counter.add(n)
CounterAdd(c, n) == c + n

\* Trend.add(x): x joins the multiset of samples.
TrendAdd(t, x) == [t EXCEPT ![x] = @ + 1]

EmptyRate == [total |-> 0, trues |-> 0]

(***************************************************************************)
(* VU lifecycle and iteration loop (specification sections 4.1, 4.2, 5)    *)
(***************************************************************************)

\* Bounds of the model: the VU pool and the iterations one run starts.
MaxVUs == 2
MaxIterations == 2

VUs == 1..MaxVUs

\* What a response offers the script: status 0 and a null body for a request that
\* failed at the network level; any status with a null, empty or non-empty body
\* otherwise (null when bodies are discarded).
Statuses == {0, 200, 400, 500}
Durations == {120}
AllResponses ==
  {r \in [status : Statuses, bodyNull : BOOLEAN, bodyLen : {0, 2}, duration : Durations] :
     /\ r.status = 0 => r.bodyNull
     /\ r.bodyNull => r.bodyLen = 0}

\* basic-load is the one script that reads the response's body; for the others one
\* body per status stands for all.
ReadsBody(name) == name = "basic-load"

ResponseChoices(name) ==
  {r \in AllResponses :
     ~ReadsBody(name) =>
        /\ r.bodyNull = (r.status = 0)
        /\ r.bodyLen = (IF r.bodyNull THEN 0 ELSE 2)}

Parked == [pc |-> "parked", pending |-> 0, expectErr |-> FALSE, fails |-> 0,
           retiring |-> FALSE]

\* The target the engine converges to, within the pool: 0 once the time budget is
\* used up or the stop signal given.
Stopping == stopped \/ elapsed >= TotalDuration(Stages(scenario))

Desired(name, start, t) ==
  LET x == TargetAt(Stages(name), start, t) IN IF x > MaxVUs THEN MaxVUs ELSE x

LiveDesired == IF Stopping THEN 0 ELSE Desired(scenario, startVUs, elapsed)

\* VUs that count towards the target: live and not being retired.
Active == {v \in VUs : vus[v].pc # "parked" /\ ~vus[v].retiring}

\* The instants at which the pool's desired size changes, and the end of the run.
EventTimes ==
  [name \in ScenarioNames, start \in StartChoices |->
     {t \in 1..TotalDuration(Stages(name)) :
        \/ t = TotalDuration(Stages(name))
        \/ Desired(name, start, t) # Desired(name, start, t - 1)}]

VUInit ==
  /\ vus = [v \in VUs |-> Parked]
  /\ stopped = FALSE
  /\ runState = "running"
  /\ iterations = 0
  /\ errorRate = EmptyRate
  /\ errors = 0
  /\ requestCount = 0
  /\ requestDuration = [d \in Durations |-> 0]
  /\ checksReg = [passes |-> 0, fails |-> 0]
  /\ completed = [pass |-> 0, fail |-> 0, should |-> 0, other |-> 0]
  /\ aborted = 0

VUIdleRest ==
  /\ vus = << >>
  /\ stopped = FALSE
  /\ runState = "idle"
  /\ iterations = 0
  /\ errors = 0
  /\ requestCount = 0
  /\ requestDuration = << >>
  /\ checksReg = [passes |-> 0, fails |-> 0]
  /\ completed = [pass |-> 0, fail |-> 0, should |-> 0, other |-> 0]
  /\ aborted = 0

VUIdle == VUIdleRest /\ errorRate = EmptyRate

regVars == <<errorRate, errors, requestCount, requestDuration, checksReg>>

\* The clock reaches the next instant at which the desired pool size changes.
Advance ==
  /\ runState = "running"
  /\ elapsed < TotalDuration(Stages(scenario))
  /\ LET later == {t \in EventTimes[scenario, startVUs] : t > elapsed}
     IN elapsed' = CHOOSE t \in later : \A u \in later : t <= u
  /\ target' = TargetAt(Stages(scenario), startVUs, elapsed')
  /\ UNCHANGED <<scenario, startVUs, vuVars>>
  /\ UNCHANGED <<runnerVars, thrVars>>

\* The global stop signal from outside (an interrupt).
Interrupt ==
  /\ runState = "running"
  /\ ~stopped
  /\ stopped' = TRUE
  /\ UNCHANGED <<vus, runState, iterations, regVars, completed, aborted>>
  /\ UNCHANGED <<runnerVars, schedVars, thrVars>>

\* Fewer VUs than the target: a parked VU (the first of the pool) starts its
\* iteration loop.
Spawn(v) ==
  /\ runState = "running"
  /\ vus[v].pc = "parked"
  /\ \A u \in VUs : vus[u].pc = "parked" => v <= u
  /\ Cardinality(Active) < LiveDesired
  /\ vus' = [vus EXCEPT ![v] = [Parked EXCEPT !.pc = "ready"]]
  /\ UNCHANGED <<stopped, runState, iterations, regVars, completed, aborted>>
  /\ UNCHANGED <<runnerVars, schedVars, thrVars>>

\* More VUs than the target: one is marked for retirement; it keeps its iteration.
Retire(v) ==
  /\ runState = "running"
  /\ v \in Active
  /\ Cardinality(Active) > LiveDesired
  /\ vus' = [vus EXCEPT ![v].retiring = TRUE]
  /\ UNCHANGED <<stopped, runState, iterations, regVars, completed, aborted>>
  /\ UNCHANGED <<runnerVars, schedVars, thrVars>>

\* A retiring VU between two iterations is removed.
Remove(v) ==
  /\ runState = "running"
  /\ vus[v].retiring
  /\ vus[v].pc = "ready"
  /\ vus' = [vus EXCEPT ![v] = Parked]
  /\ UNCHANGED <<stopped, runState, iterations, regVars, completed, aborted>>
  /\ UNCHANGED <<runnerVars, schedVars, thrVars>>

\* The default function is called: a request is picked and the HTTP call(s) issued.
StartIteration(v) ==
  /\ runState = "running"
  /\ vus[v].pc = "ready"
  /\ ~vus[v].retiring
  /\ ~Stopping
  /\ iterations < MaxIterations
  /\ \E idx \in RequestChoices(scenario) :
       vus' = [vus EXCEPT ![v] = [pc |-> "http", pending |-> BatchSize(scenario),
                                  expectErr |-> ShouldError(scenario, idx),
                                  fails |-> 0, retiring |-> FALSE]]
  /\ iterations' = iterations + 1
  /\ UNCHANGED <<stopped, runState, regVars, completed, aborted>>
  /\ UNCHANGED <<runnerVars, schedVars, thrVars>>

\* A response arrives. While others of the batch are outstanding the VU keeps
\* waiting; on the last one the script runs up to and including its check()
\* calls: basic-load first adds the elapsed time and 1 to its Trend and Counter.
\* An exception ends the iteration there; the VU is ready for the next one.
Respond(v) ==
  /\ runState = "running"
  /\ vus[v].pc = "http"
  /\ \E r \in ResponseChoices(scenario) :
       LET me == vus[v]
           checks == ChecksOf(scenario, me.expectErr)
           c == Check(r, checks)
           before == BatchSize(scenario) - me.pending
           fails == me.fails + c.fails
       IN IF me.pending > 1
            THEN /\ vus' = [vus EXCEPT ![v].pending = @ - 1, ![v].fails = fails]
                 /\ UNCHANGED <<requestDuration, requestCount, checksReg, aborted>>
            ELSE /\ requestDuration' =
                      IF scenario = "basic-load"
                        THEN TrendAdd(requestDuration, r.duration)
                        ELSE requestDuration
                 /\ requestCount' =
                      IF scenario = "basic-load"
                        THEN CounterAdd(requestCount, 1)
                        ELSE requestCount
                 /\ checksReg' =
                      [passes |-> checksReg.passes + c.passes
                                    + (before * Len(checks) - me.fails),
                       fails |-> checksReg.fails + fails]
                 /\ IF c.threw
                      THEN /\ vus' = [vus EXCEPT ![v].pc = "ready", ![v].pending = 0,
                                                 ![v].expectErr = FALSE, ![v].fails = 0]
                           /\ aborted' = aborted + 1
                      ELSE /\ vus' = [vus EXCEPT
                                        ![v].pc = IF HasRecordStep(scenario, me.expectErr,
                                                                   c.success)
                                                    THEN "record" ELSE "sleep",
                                        ![v].pending = 0,
                                        ![v].fails = fails]
                           /\ UNCHANGED aborted
  /\ UNCHANGED <<stopped, runState, iterations, errorRate, errors, completed>>
  /\ UNCHANGED <<runnerVars, schedVars, thrVars>>

\* The register update that follows check(): errorRate.add in basic-load and
\* stress-test, errors.add(1) in error-test. Then the script calls sleep.
Record(v) ==
  /\ runState = "running"
  /\ vus[v].pc = "record"
  /\ errorRate' =
       IF scenario \in {"basic-load", "stress-test"}
         THEN RateAdd(errorRate, ErrorSample(scenario, vus[v].fails = 0))
         ELSE errorRate
  /\ errors' = IF scenario = "error-test" THEN CounterAdd(errors, 1) ELSE errors
  /\ vus' = [vus EXCEPT ![v].pc = "sleep"]
  /\ UNCHANGED <<stopped, runState, iterations, requestCount, requestDuration,
                 checksReg, completed, aborted>>
  /\ UNCHANGED <<runnerVars, schedVars, thrVars>>

\* sleep returns: the iteration is complete.
Wake(v) ==
  /\ runState = "running"
  /\ vus[v].pc = "sleep"
  /\ completed' =
       [pass |-> completed.pass + (IF vus[v].fails = 0 THEN 1 ELSE 0),
        fail |-> completed.fail + (IF vus[v].fails = 0 THEN 0 ELSE 1),
        should |-> completed.should + (IF vus[v].expectErr THEN 1 ELSE 0),
        other |-> completed.other + (IF vus[v].expectErr THEN 0 ELSE 1)]
  /\ vus' = [vus EXCEPT ![v].pc = "ready", ![v].expectErr = FALSE, ![v].fails = 0]
  /\ UNCHANGED <<stopped, runState, iterations, regVars, aborted>>
  /\ UNCHANGED <<runnerVars, schedVars, thrVars>>

\* The run ends once it is stopping and every VU has been removed.
Finish ==
  /\ runState = "running"
  /\ Stopping
  /\ \A v \in VUs : vus[v].pc = "parked"
  /\ runState' = "done"
  /\ UNCHANGED <<vus, stopped, iterations, regVars, completed, aborted>>
  /\ UNCHANGED <<runnerVars, schedVars, thrVars>>

VUNext ==
  \/ Advance
  \/ Interrupt
  \/ Finish
  \/ \E v \in VUs : Spawn(v)
  \/ \E v \in VUs : Retire(v)
  \/ \E v \in VUs : Remove(v)
  \/ \E v \in VUs : StartIteration(v)
  \/ \E v \in VUs : Respond(v)
  \/ \E v \in VUs : Record(v)
  \/ \E v \in VUs : Wake(v)

\* The steps that the clock, the network (requests time out) and the engine take
\* on their own; starting a further iteration and the interrupt are not among them.
Progress ==
  \/ Advance
  \/ Finish
  \/ \E v \in VUs : Retire(v) \/ Remove(v) \/ Respond(v) \/ Record(v) \/ Wake(v)

\* While one of these steps can be taken, one is taken.
VUFairness == WF_vars(Progress)

(***************************************************************************)
(* Thresholds (script) and Threshold Evaluator (specification section 4.3) *)
(***************************************************************************)

\* A threshold expression '<agg>(<arg>)<op><bound>' on a metric, the bound kept as
\* the fraction num/den: 'p(95)<500' is p, 95, <, 500/1 and 'rate<0.1' is
\* rate, <, 1/10.
Threshold(metric, agg, arg, op, num, den) ==
  [metric |-> metric, agg |-> agg, arg |-> arg, op |-> op, num |-> num, den |-> den]

\* basic-load's thresholds with <= in the place of <.
BasicLoadThresholdsNonStrict ==
  << Threshold("http_req_duration", "p", 95, "<=", 500, 1),
     Threshold("http_req_duration", "p", 99, "<=", 1000, 1),
     Threshold("http_req_failed", "rate", 0, "<=", 1, 10),
     Threshold("errors", "rate", 0, "<=", 1, 10) >>

\* basic-load, src/k6/profiling-test.js:52-56
BasicLoadThresholds ==
  << Threshold("http_req_duration", "p", 95, "<", 500, 1),
     Threshold("http_req_duration", "p", 99, "<", 1000, 1),
     Threshold("http_req_failed", "rate", 0, "<", 1, 10),
     Threshold("errors", "rate", 0, "<", 1, 10) >>

\* options.thresholds of the scenario script; the other scripts declare none.
Thresholds(name) == IF name = "basic-load" THEN BasicLoadThresholds ELSE << >>

\* An aggregate is a fraction <<num, den>>; den = 0 stands for the undefined value
\* of an empty register.
Undefined == <<0, 0>>

\* Rate: the fraction of the observations that were true.
RateOf(reg) == IF reg.total = 0 THEN Undefined ELSE <<reg.trues, reg.total>>

\* Trend: the q-th percentile of the samples (in ascending order), interpolated
\* linearly between the two samples around position q/100 * (n - 1); p(0) is the
\* minimum and p(100) the maximum.
Percentile(samples, q) ==
  LET n == Len(samples)
      pos == q * (n - 1)
      lo == pos \div 100 + 1
      hi == IF lo < n THEN lo + 1 ELSE n
      frac == pos % 100
  IN IF n = 0 THEN Undefined
     ELSE <<100 * samples[lo] + (samples[hi] - samples[lo]) * frac, 100>>

\* The comparison of an aggregate with a bound; nothing compares with the
\* undefined value.
Compare(op, a, num, den) ==
  IF a[2] = 0 THEN FALSE
  ELSE CASE op = "<" -> a[1] * den < num * a[2]
         [] op = "<=" -> a[1] * den <= num * a[2]
         [] op = ">" -> a[1] * den > num * a[2]
         [] op = ">=" -> a[1] * den >= num * a[2]

\* The aggregate a threshold asks for, from the register its metric names.
Aggregate(th) ==
  CASE th.metric = "http_req_duration" /\ th.agg = "p" -> Percentile(httpDuration, th.arg)
    [] th.metric = "http_req_failed" /\ th.agg = "rate" -> RateOf(httpFailed)
    [] th.metric = "errors" /\ th.agg = "rate" -> RateOf(errorRate)

ThresholdHolds(th) == Compare(th.op, Aggregate(th), th.num, th.den)

\* Bounds of the final registers the evaluation is tried on.
MaxSamples == 2
MaxRateSamples == 10
MaxTrues == 2

SampleValues == {120, 499, 500, 520, 1000}

SortedSamples ==
  {q \in UNION {[1..n -> SampleValues] : n \in 0..MaxSamples} :
     \A i \in 1..(Len(q) - 1) : q[i] <= q[i + 1]}

Rates ==
  {r \in [total : 0..MaxRateSamples, trues : 0..MaxTrues] : r.trues <= r.total}

\* The registers as a basic-load run has left them.
ThrInit ==
  /\ scenario = "basic-load"
  /\ startVUs = 0
  /\ elapsed = TotalDuration(BasicLoadStages)
  /\ target = 0
  /\ httpDuration \in SortedSamples
  /\ httpFailed \in Rates
  /\ errorRate \in Rates
  /\ verdict = [overall |-> "none", failed |-> {}]

\* The one evaluation, over the final registers.
Evaluate ==
  /\ verdict.overall = "none"
  /\ LET ths == Thresholds(scenario)
         failed == {i \in 1..Len(ths) : ~ThresholdHolds(ths[i])}
     IN verdict' = [overall |-> IF failed = {} THEN "PASS" ELSE "FAIL",
                    failed |-> failed]
  /\ UNCHANGED <<httpDuration, httpFailed>>
  /\ UNCHANGED <<runnerVars, schedVars, vuVars>>

ThrNext == Evaluate

\* C4: basic-load's verdict is PASS exactly when p(95) < 500 and p(99) < 1000 of
\* http_req_duration, and the rates of http_req_failed and errors are < 0.1; the
\* comparisons are strict, so a p(95) of exactly 500 or a rate of exactly 0.1
\* makes the run FAIL.
C4_VerdictIffAllThresholds ==
  LET p95 == Percentile(httpDuration, 95)
      p99 == Percentile(httpDuration, 99)
      durOk == /\ Len(httpDuration) > 0
               /\ p95[1] < 500 * p95[2]
               /\ p99[1] < 1000 * p99[2]
      failedOk == httpFailed.total > 0 /\ 10 * httpFailed.trues < httpFailed.total
      errorsOk == errorRate.total > 0 /\ 10 * errorRate.trues < errorRate.total
  IN verdict.overall # "none" =>
       /\ verdict.overall = "PASS" <=> (durOk /\ failedOk /\ errorsOk)
       /\ verdict.overall \in {"PASS", "FAIL"}
       /\ (Len(httpDuration) > 0 /\ p95[1] = 500 * p95[2]) => verdict.overall = "FAIL"
       /\ (errorRate.total > 0 /\ 10 * errorRate.trues = errorRate.total) =>
            verdict.overall = "FAIL"
       /\ (httpFailed.total > 0 /\ 10 * httpFailed.trues = httpFailed.total) =>
            verdict.overall = "FAIL"

\* C4 witness: the samples 120 and 520 put p(95) at exactly 500; every other
\* threshold is met and the verdict is FAIL on the first threshold alone.
C4_Witness ==
  /\ httpDuration = <<120, 520>>
  /\ Percentile(httpDuration, 95) = <<50000, 100>>
  /\ httpFailed = [total |-> 10, trues |-> 0]
  /\ errorRate = [total |-> 10, trues |-> 0]
  /\ verdict = [overall |-> "FAIL", failed |-> {1}]

(***************************************************************************)
(* Claims about the VUs and the registers                                  *)
(***************************************************************************)

\* VUs whose iteration has done its register update and is in its trailing sleep.
Sleeping == {v \in VUs : vus[v].pc = "sleep"}

\* C7: the target is 0 at the end of the last stage and the run then terminates;
\* a VU retired or stopped while its iteration is in flight is removed only
\* between iterations (after the HTTP call, the checks and the sleep), and once
\* retiring or stopped it starts no further iteration.
C7_DrainAndTerminate ==
  /\ [](elapsed = TotalDuration(Stages(scenario)) => target = 0)
  /\ <>(runState = "done")
  /\ [][\A v \in VUs :
          /\ vus[v].pc \in {"http", "record", "sleep"} => vus'[v].pc # "parked"
          /\ vus[v].pc = "http" => vus'[v].pc \in {"http", "record", "sleep", "ready"}
          /\ (vus[v].pc = "ready" /\ (vus[v].retiring \/ Stopping)) =>
               vus'[v].pc \in {"ready", "parked"}
          /\ (vus[v].retiring /\ vus'[v].pc # "parked") => vus'[v].retiring]_vars

\* C7 witness: the soak test's time is up (target 0) and a VU being retired still
\* waits for the second response of its batch.
C7_Witness ==
  /\ scenario = "soak-test"
  /\ elapsed = TotalDuration(SoakStages)
  /\ target = 0
  /\ \E v \in VUs : vus[v].retiring /\ vus[v].pc = "http" /\ vus[v].pending = 1

\* C8: in basic-load and stress-test every completed iteration has added exactly
\* one sample to the errors Rate, true exactly when one of its checks failed, so
\* that at the end of the run the register holds n trues out of n + m samples
\* (n completed iterations with a failed check, m with all checks passed).
C8_ErrorRateCountsIterations ==
  scenario \in {"basic-load", "stress-test"} =>
    /\ errorRate.total = completed.pass + completed.fail + Cardinality(Sleeping)
    /\ errorRate.trues =
         completed.fail + Cardinality({v \in Sleeping : vus[v].fails > 0})
    /\ runState = "done" =>
         /\ errorRate.trues = completed.fail
         /\ errorRate.total = completed.fail + completed.pass

\* C8 witness: a basic-load run has ended after one iteration with a failed check
\* and one without.
C8_Witness ==
  /\ scenario = "basic-load"
  /\ runState = "done"
  /\ completed.fail = 1
  /\ completed.pass = 1
  /\ errorRate = [total |-> 2, trues |-> 1]

\* C9: no response aborts an iteration: once the response is in, the iteration
\* runs its checks and register updates and reaches its sleep, and the VU is back
\* at the start of its loop only after the sleep.
C9_IterationNeverAborted ==
  [][\A v \in VUs :
       /\ vus[v].pc = "http" => vus'[v].pc \in {"http", "record", "sleep"}
       /\ vus[v].pc = "record" => vus'[v].pc \in {"record", "sleep"}
       /\ vus[v].pc = "sleep" => vus'[v].pc \in {"sleep", "ready"}]_vars

\* C10: in error-test the intentional_errors counter is the number of completed
\* iterations that picked a shouldError request (plus those now asleep after their
\* update), whatever the responses were.
C10_IntentionalCounter ==
  scenario = "error-test" =>
    /\ errors = completed.should + Cardinality({v \in Sleeping : vus[v].expectErr})
    /\ runState = "done" => errors = completed.should

\* C10 witness: an error-test run has ended after a shouldError iteration and
\* another one, both with a failed check, and the counter is 1.
C10_Witness ==
  /\ scenario = "error-test"
  /\ runState = "done"
  /\ completed.should = 1
  /\ completed.other = 1
  /\ completed.fail = 2
  /\ errors = 1

(***************************************************************************)
(* Specifications                                                          *)
(***************************************************************************)

SchedIdle ==
  /\ scenario = "none"
  /\ startVUs = 0
  /\ elapsed = 0
  /\ target = 0

ThrIdle ==
  /\ httpDuration = << >>
  /\ httpFailed = EmptyRate
  /\ verdict = [overall |-> "none", failed |-> {}]

InitRunner == RunnerInit /\ SchedIdle /\ VUIdle /\ ThrIdle

SpecRunner == InitRunner /\ [][RunnerNext]_vars

InitSchedule == RunnerIdle /\ SchedInit /\ VUIdle /\ ThrIdle

SpecSchedule == InitSchedule /\ [][SchedNext]_vars

InitVU == RunnerIdle /\ SchedInit /\ VUInit /\ ThrIdle

SpecVU == InitVU /\ [][VUNext]_vars

SpecVUFair == SpecVU /\ VUFairness

InitThreshold == RunnerIdle /\ VUIdleRest /\ ThrInit

SpecThreshold == InitThreshold /\ [][ThrNext]_vars

====
